---- MODULE Spec2Model ----
(***************************************************************************)
(* Incident reporting, responder dispatch and reclamation of the Flask     *)
(* backend (src/backend/app.py) over its SQLite tables                     *)
(* (src/backend/database.py), with the resource-allocation endpoint of the *)
(* AI service (src/ai-service/main.py) as the producer of assignments.     *)
(*                                                                         *)
(* Every request handler runs on its own connection (get_db).  Reads see   *)
(* the last committed tables; the first UPDATE/INSERT/DELETE of a handler  *)
(* opens the single SQLite write transaction, which lasts until commit()   *)
(* or until close_db drops it.  fire_departments.available_staff is the    *)
(* column app.py reads and writes; database.py seeds the same quantity     *)
(* under the name available_responders.                                    *)
(***************************************************************************)
EXTENDS Integers, Sequences, FiniteSets, TLC

\* ------------------------------------------------------------------ bounds
MaxIncidents == 2     \* POST /api/incidents/report requests in a behaviour
NumDepts     == 1     \* seeded fire departments taken from database.py
MaxAssign    == 1     \* assignment entries in one allocation response
MaxUpd       == 2     \* PUT /api/incidents/<id>/status requests in a behaviour
MaxUpserts   == 1     \* POST /api/fire_departments requests in a behaviour
MaxMessages  == 2     \* messages published to the sensor queue

\* ------------------------------------------------------- program constants
NULL == 0             \* SQL NULL in latitude/longitude, as a point index
REQUIRED_PER_SEVERITY == 10
SEVERITY_MIN == 1
SEVERITY_MAX == 10

\* Coordinates are indices into POINTS; 1..4 are the seeded departments
\* (Innenstadt, Ehrenfeld, Deutz, Chorweiler), 5 and 6 are report locations
\* (50.9413, 6.9583) and (51.0, 6.9).
POINTS == 1..6

\* Haversine distance of update_incident_status, R = 6371.0, evaluated in
\* IEEE doubles for every pair of POINTS and kept in metres.
HAVERSINE_M ==
  << <<0, 2999, 1583, 10114, 702, 7967>>,
     <<2999, 0, 4284, 7692, 3100, 5448>>,
     <<1583, 4284, 0, 10645, 1190, 8631>>,
     <<10114, 7692, 10645, 0, 9791, 2252>>,
     <<702, 3100, 1190, 9791, 0, 7699>>,
     <<7967, 5448, 8631, 2252, 7699, 0>> >>

\* Variant of dist_km: the equirectangular approximation with the longitude
\* difference scaled by the cosine of the first point's latitude.
dist_km_equirectangular(p, q) ==
  << <<0, 2999, 1583, 10115, 702, 7968>>,
     <<2999, 0, 4284, 7692, 3099, 5448>>,
     <<1583, 4285, 0, 10647, 1190, 8633>>,
     <<10112, 7692, 10642, 0, 9790, 2252>>,
     <<702, 3100, 1190, 9793, 0, 7700>>,
     <<7965, 5448, 8629, 2252, 7697, 0>> >>[p][q]

dist_km(p, q) == HAVERSINE_M[p][q]

default_departments ==
  << [point |-> 1, available_staff |-> 25],
     [point |-> 2, available_staff |-> 8],
     [point |-> 3, available_staff |-> 20],
     [point |-> 4, available_staff |-> 6] >>

\* Variant of allowed_statuses: resolved cannot be requested.
allowed_statuses_unresolved == {"open", "in_process"}

allowed_statuses == {"open", "in_process", "resolved"}

\* ------------------------------------------------------------ conversions
\* Decimal literals the model exchanges as strings (form fields, JSON ids).
INT_LITERALS ==
  { <<"-1", -1>>, <<"0", 0>>, <<"1", 1>>, <<"2", 2>>, <<"3", 3>>,
    <<"4", 4>>, <<"5", 5>>, <<"11", 11>> }

\* Python int(s): the value, or ValueError (ok = FALSE).
ParseInt(s) ==
  IF \E p \in INT_LITERALS : p[1] = s
    THEN [ok |-> TRUE, val |-> (CHOOSE p \in INT_LITERALS : p[1] = s)[2]]
    ELSE [ok |-> FALSE, val |-> 0]

\* Python str(n) for the integers the model prints.
Str(n) == (CHOOSE p \in INT_LITERALS : p[2] = n)[1]

\* severity_score form field: missing/empty/invalid -> 1, else int().
ParseSeverity(severity_raw) ==
  IF severity_raw = ""
    THEN 1
    ELSE IF ParseInt(severity_raw).ok THEN ParseInt(severity_raw).val ELSE 1

\* ------------------------------------------------------------- input sets
SeverityRaw   == {"0", "2"}
LocInputs     == {6}
AmountChoices == {0, 20}
FdIdStrings   == {Str(d) : d \in 1..(NumDepts + 1)} \cup {"FD-001"}
ItemIdStrings == {Str(i) : i \in 1..MaxIncidents}
AiOutcomes    == {"ok", "llm_error", "unreachable"}
Verdicts      == {"no_file", "not_fake", "fake", "non_200", "unreachable"}
PointInputs   == {NULL, 2}
StaffInputs   == {0}

IncidentIds == 1..MaxIncidents
UpdIds      == 1..MaxUpd
FdInts      == 1..(NumDepts + 1)

\* ------------------------------------------------------------------ state
VARIABLES
  fire_departments,  \* committed table: id -> [point, available_staff]
  incidents,         \* committed table: id -> row
  next_incident_id,  \* AUTOINCREMENT of incidents
  txn,               \* the open write transaction of a report handler
  rep,               \* report_incident_with_files handlers, by incident id
  upd,               \* update_incident_status handlers
  n_upserts,         \* create_or_update_fire_department requests so far
  hist,              \* per incident: the allocation response it was given
  sensor_data,       \* the RabbitMQ queue: message ids ready for delivery
  consumer,          \* sensor_queue.py: the callback's position and message
  sensor_readings,   \* committed table: rows, each with the message it is from
  msgs,              \* per published message: body, deliveries, acks, outcome
  pair,              \* two points handed to the distance computation
  measured           \* the distances computed for pair, by direction

vars == <<fire_departments, incidents, next_incident_id, txn, rep, upd,
          n_upserts, hist, sensor_data, consumer, sensor_readings, msgs,
          pair, measured>>

\* The state of the sensor consumer and of the distance computation, which
\* the HTTP handlers leave alone.
side_vars == <<sensor_data, consumer, sensor_readings, msgs, pair, measured>>

NoTxn == [owner |-> 0, fds |-> <<>>]

\* The consumer between two deliveries (start_consuming, line 77).
Waiting == [pc |-> "waiting", delivery_tag |-> 0]

\* response: the HTTP status and the JSON body the request returned (its
\* keys, with the numbers they carry), code 0 while the request is running.
IdleRep == [pc |-> "new", snapshot |-> <<>>, dispatched_total |-> 0,
            rows |-> 0, response |-> [code |-> 0, body |-> <<>>]]

\* code: the HTTP status the request returned, 0 while it is running.
IdleUpd == [pc |-> "idle", incident_id |-> 0, new_status |-> "open",
            old_status |-> "open", dispatched |-> 0, point |-> NULL,
            nearest_fd |-> 0, code |-> 0]

\* returned: the sum of responders_dispatched over the assignments listed
\* under the incident's id; plan: the amounts the loop counted, by department
\* id; plan_ok: every counted amount was within the payload's snapshot;
\* reclaimed: the reclamations committed for the incident; was_resolved: a
\* request has committed the incident as resolved; unreleased: a request
\* that had to reclaim found no department to credit.
NoHist == [returned |-> 0, plan |-> [d \in FdInts |-> 0], plan_ok |-> TRUE,
           reclaimed |-> 0, was_resolved |-> FALSE, unreleased |-> FALSE]

Init ==
  /\ fire_departments = [d \in 1..NumDepts |-> default_departments[d]]
  /\ incidents = <<>>
  /\ next_incident_id = 1
  /\ txn = NoTxn
  /\ rep = [i \in IncidentIds |-> IdleRep]
  /\ upd = [u \in UpdIds |-> IdleUpd]
  /\ n_upserts = 0
  /\ hist = [i \in IncidentIds |-> NoHist]
  /\ sensor_data = <<>>
  /\ consumer = Waiting
  /\ sensor_readings = <<>>
  /\ msgs = <<>>
  /\ pair = <<NULL, NULL>>
  /\ measured = <<>>

\* A handler other than `me` holds the write lock.
WriteLocked(me) == txn.owner # 0 /\ txn.owner # me

\* ---------------------------------------------- report_incident_with_files
\* Lines 253-289: parse the form, INSERT the incident, commit.
ReportInsert(lat_lon, severity_raw) ==
  LET incident_id == next_incident_id
      severity_score == ParseSeverity(severity_raw)
  IN /\ incident_id <= MaxIncidents
     /\ ~WriteLocked(0)
     /\ incidents' = (incident_id :> [status |-> "open",
                                      dispatched_responders |-> 0,
                                      severity_score |-> severity_score,
                                      point |-> lat_lon]) @@ incidents
     /\ next_incident_id' = incident_id + 1
     /\ rep' = [rep EXCEPT ![incident_id].pc = "files"]
     /\ UNCHANGED <<fire_departments, txn, upd, n_upserts, hist, side_vars>>

\* Variant of check_for_ai_fakes that flags the file when the detector
\* gives no verdict.
check_for_ai_fakes_fail_closed(verdict) ==
  verdict \in {"fake", "non_200", "unreachable"}

\* check_for_ai_fakes, lines 49-95: is_fake of what the function returns.
\* A 200 answer is returned as it is (73-74); a non-200 answer (75-87) and a
\* RequestException (89-95) return is_fake = False.
check_for_ai_fakes(verdict) ==
  CASE verdict = "fake" -> TRUE
    [] verdict = "not_fake" -> FALSE
    [] verdict = "non_200" -> FALSE
    [] verdict = "unreachable" -> FALSE
    [] OTHER -> FALSE

\* Lines 317-324: the 400 answer for a flagged file; error and message are
\* texts, kept as 0.
fake_image_detected(incident_id) ==
  [code |-> 400,
   body |-> [k \in {"error", "message", "incident_id"} |->
               IF k = "incident_id" THEN incident_id ELSE 0]]

\* Lines 411-422: the 201 answer.  saved_files is kept as 0; the allocation
\* service's data is kept as the sum of the responders it lists for the
\* incident, its error as the HTTP status (0: not reached).
response_body(incident_id, severity_score, success, data, error) ==
  [code |-> 201,
   body |-> [k \in {"incident_id", "saved_files", "severity_score",
                     IF success THEN "resource_allocation"
                                ELSE "resource_allocation_error"} |->
               CASE k = "incident_id" -> incident_id
                 [] k = "saved_files" -> 0
                 [] k = "severity_score" -> severity_score
                 [] k = "resource_allocation" -> data
                 [] k = "resource_allocation_error" -> error]]

\* Variant of ReportReject that answers 400 without the DELETE.
ReportRejectKeepsRow(i, verdict) ==
  /\ rep[i].pc = "files"
  /\ verdict # "no_file"
  /\ check_for_ai_fakes(verdict)
  /\ ~WriteLocked(0)
  /\ rep' = [rep EXCEPT ![i].pc = "rejected",
                          ![i].response = fake_image_detected(i)]
  /\ UNCHANGED <<fire_departments, incidents, next_incident_id, side_vars, txn, upd,
                 n_upserts, hist>>

\* Lines 291-324: an uploaded file flagged as fake DELETEs the incident and
\* commits; the request ends with 400.
ReportReject(i, verdict) ==
  /\ rep[i].pc = "files"
  /\ verdict # "no_file"
  /\ check_for_ai_fakes(verdict)
  /\ ~WriteLocked(0)
  /\ incidents' = [j \in DOMAIN incidents \ {i} |-> incidents[j]]
  /\ rep' = [rep EXCEPT ![i].pc = "rejected",
                          ![i].response = fake_image_detected(i)]
  /\ UNCHANGED <<fire_departments, next_incident_id, side_vars, txn, upd, n_upserts,
                 hist>>

\* Incidents whose creation has committed a dispatch.
Committed ==
  {j \in IncidentIds : rep[j].pc = "done" /\ rep[j].dispatched_total > 0}

\* call_ai_resource_allocation, lines 119-139: fire_departments_nearby, the
\* departments with coordinates and their available_staff.
fire_departments_nearby(fds) ==
  [d \in {e \in DOMAIN fds : fds[e].point # NULL} |-> fds[d].available_staff]

\* prioritize_incidents (ai-service/main.py 171, 174-179, 331-376) as seen by
\* call_ai_resource_allocation (app.py 158-185): the HTTP status, 0 when the
\* service cannot be reached.
resource_allocation_status(severity_score, snapshot, outcome) ==
  IF outcome = "unreachable" THEN 0
  ELSE IF severity_score < SEVERITY_MIN \/ severity_score > SEVERITY_MAX
          \/ \E d \in DOMAIN snapshot : snapshot[d] < 0
         THEN 422
  ELSE IF outcome = "llm_error" THEN 500
  ELSE 200

\* Lines 291-369: no file is flagged, the departments are read for the
\* payload and the allocation service answers.  Without a usable answer the
\* request ends here with 201 (lines 411-422).
ReportAllocate(i, verdict, outcome) ==
  /\ rep[i].pc = "files"
  /\ verdict = "no_file" \/ ~check_for_ai_fakes(verdict)
  /\ LET snapshot == fire_departments_nearby(fire_departments)
         code == resource_allocation_status(incidents[i].severity_score,
                                            snapshot, outcome)
     IN IF code \in {200, 201}
          THEN rep' = [rep EXCEPT ![i].pc = "assign",
                                  ![i].snapshot = snapshot]
          ELSE rep' = [rep EXCEPT
                 ![i].pc = "done",
                 ![i].response =
                    response_body(i, incidents[i].severity_score, FALSE, 0,
                                  code)]
  /\ UNCHANGED <<fire_departments, incidents, next_incident_id, side_vars, txn, upd,
                 n_upserts, hist>>

\* The department table the handler's connection sees.
FdTable(i) == IF txn.owner = i THEN txn.fds ELSE fire_departments

\* Variant of Reserve: the deduction without the CASE guard.
ReserveUnguarded(fds, fd_id, dispatched) ==
  [d \in DOMAIN fds |->
     IF d = fd_id
       THEN [fds[d] EXCEPT !.available_staff = @ - dispatched]
       ELSE fds[d]]

\* Variant of Reserve: an insufficient count is left as it is.
ReserveOrKeep(fds, fd_id, dispatched) ==
  [d \in DOMAIN fds |->
     IF d = fd_id
       THEN [fds[d] EXCEPT !.available_staff =
               IF @ >= dispatched THEN @ - dispatched ELSE @]
       ELSE fds[d]]

\* Lines 385-396: UPDATE fire_departments SET available_staff = CASE ... END
\* WHERE id = fd_id.
Reserve(fds, fd_id, dispatched) ==
  [d \in DOMAIN fds |->
     IF d = fd_id
       THEN [fds[d] EXCEPT !.available_staff =
               IF @ >= dispatched THEN @ - dispatched ELSE 0]
       ELSE fds[d]]

\* Lines 372-397: one assignment of the response.  The entries are drawn as
\* the loop reaches them; the service's answer does not depend on the tables.
ReportAssignment(i, item_id, fd_id_str, dispatched) ==
  /\ rep[i].pc = "assign"
  /\ rep[i].rows < MaxAssign
  /\ IF Str(i) # item_id
       THEN /\ rep' = [rep EXCEPT ![i].rows = @ + 1]
            /\ UNCHANGED <<txn, hist>>
       ELSE IF ~ParseInt(fd_id_str).ok
         THEN /\ rep' = [rep EXCEPT ![i].rows = @ + 1]
              /\ hist' = [hist EXCEPT ![i].returned = @ + dispatched]
              /\ UNCHANGED txn
         ELSE LET fd_id == ParseInt(fd_id_str).val
                  fds   == FdTable(i)
                  plan  == [hist[i].plan EXCEPT ![fd_id] = @ + dispatched]
              IN /\ ~WriteLocked(i)
                 /\ txn' = [owner |-> i, fds |-> Reserve(fds, fd_id, dispatched)]
                 /\ rep' = [rep EXCEPT ![i].rows = @ + 1,
                                       ![i].dispatched_total = @ + dispatched]
                 /\ hist' = [hist EXCEPT
                      ![i].returned = @ + dispatched,
                      ![i].plan = plan,
                      ![i].plan_ok = @ /\ fd_id \in DOMAIN rep[i].snapshot
                                       /\ plan[fd_id] <= rep[i].snapshot[fd_id]]
  /\ UNCHANGED <<fire_departments, incidents, next_incident_id, side_vars, upd,
                 n_upserts>>

\* Variant of ReportInterrupted: every deduction issued so far has been
\* committed as it was executed.
ReportInterruptedAutocommit(i) ==
  /\ rep[i].pc = "assign"
  /\ fire_departments' = FdTable(i)
  /\ txn' = IF txn.owner = i THEN NoTxn ELSE txn
  /\ rep' = [rep EXCEPT ![i] = [IdleRep EXCEPT
                                   !.pc = "aborted",
                                   !.response = [code |-> 500,
                                                 body |-> <<>>]]]
  /\ UNCHANGED <<incidents, next_incident_id, side_vars, upd, n_upserts, hist>>

\* Lines 366-397 and close_db, lines 40-44: the request ends inside the
\* assignment loop with an exception (500).  Nothing was committed since
\* line 354; closing the connection rolls back its open transaction.
ReportInterrupted(i) ==
  /\ rep[i].pc = "assign"
  /\ txn' = IF txn.owner = i THEN NoTxn ELSE txn
  /\ rep' = [rep EXCEPT ![i] = [IdleRep EXCEPT
                                   !.pc = "aborted",
                                   !.response = [code |-> 500,
                                                 body |-> <<>>]]]
  /\ UNCHANGED <<fire_departments, incidents, next_incident_id, side_vars, upd,
                 n_upserts, hist>>

\* Variant of ReportFinish: without a dispatch the status is written too,
\* as open.
ReportFinishWritesOpen(i) ==
  /\ rep[i].pc = "assign"
  /\ incidents' = [j \in DOMAIN incidents |->
                     IF j = i
                       THEN IF rep[i].dispatched_total > 0
                              THEN [incidents[j] EXCEPT
                                      !.status = "in_process",
                                      !.dispatched_responders =
                                         rep[i].dispatched_total]
                              ELSE [incidents[j] EXCEPT !.status = "open"]
                       ELSE incidents[j]]
  /\ fire_departments' = IF rep[i].dispatched_total > 0
                           THEN FdTable(i) ELSE fire_departments
  /\ txn' = IF txn.owner = i THEN NoTxn ELSE txn
  /\ rep' = [rep EXCEPT
       ![i].pc = "done",
       ![i].response = response_body(i, incidents[i].severity_score, TRUE,
                                     hist[i].returned, 0)]
  /\ UNCHANGED <<next_incident_id, side_vars, upd, n_upserts, hist>>

\* Lines 399-422: after the loop.  A positive total marks the incident
\* in_process and commits; otherwise nothing is committed and close_db
\* (lines 40-44) drops whatever the connection had open.
ReportFinish(i) ==
  /\ rep[i].pc = "assign"
  /\ incidents' = IF rep[i].dispatched_total > 0
                    THEN [j \in DOMAIN incidents |->
                            IF j = i
                              THEN [incidents[j] EXCEPT
                                      !.status = "in_process",
                                      !.dispatched_responders =
                                         rep[i].dispatched_total]
                              ELSE incidents[j]]
                    ELSE incidents
  /\ fire_departments' = IF rep[i].dispatched_total > 0
                           THEN FdTable(i) ELSE fire_departments
  /\ txn' = IF txn.owner = i THEN NoTxn ELSE txn
  /\ rep' = [rep EXCEPT
       ![i].pc = "done",
       ![i].response = response_body(i, incidents[i].severity_score, TRUE,
                                     hist[i].returned, 0)]
  /\ UNCHANGED <<next_incident_id, side_vars, upd, n_upserts, hist>>

\* ------------------------------------------------- update_incident_status
\* Lines 842-869: the department nearest to the incident among those with
\* coordinates, the first one in table order on equal distance; 0 for None.
RECURSIVE NearestFrom(_, _, _, _, _)
NearestFrom(fds, point, d, nearest_fd, nearest_dist) ==
  IF d \notin DOMAIN fds
    THEN nearest_fd
    ELSE IF fds[d].point = NULL
      THEN NearestFrom(fds, point, d + 1, nearest_fd, nearest_dist)
      ELSE IF nearest_fd = 0 \/ dist_km(point, fds[d].point) < nearest_dist
        THEN NearestFrom(fds, point, d + 1, d, dist_km(point, fds[d].point))
        ELSE NearestFrom(fds, point, d + 1, nearest_fd, nearest_dist)

\* Variant of Nearest: the first department with coordinates, whatever its
\* distance.
NearestFirstRow(fds, point) ==
  IF \E d \in DOMAIN fds : fds[d].point # NULL
    THEN CHOOSE d \in DOMAIN fds :
           /\ fds[d].point # NULL
           /\ \A e \in DOMAIN fds : fds[e].point # NULL => d <= e
    ELSE 0

Nearest(fds, point) == NearestFrom(fds, point, 1, 0, 0)

\* Variant of MustReclaim: the new status is not looked at.
MustReclaimAnyTarget(old_status, dispatched, new_status) ==
  old_status = "in_process" /\ dispatched > 0

\* Line 839.
MustReclaim(old_status, dispatched, new_status) ==
  old_status = "in_process" /\ dispatched > 0 /\ new_status # "in_process"

\* Lines 811-834: validate the status, fetch the incident row.  Requests are
\* numbered in the order in which they fetch.
UpdFetch(u, incident_id, new_status) ==
  /\ upd[u].pc = "idle"
  /\ \A v \in UpdIds : v < u => upd[v].pc # "idle"
  /\ new_status \in allowed_statuses
  /\ incident_id \in DOMAIN incidents
  /\ LET row == incidents[incident_id]
     IN upd' = [upd EXCEPT ![u] =
          [pc |-> IF MustReclaim(row.status, row.dispatched_responders,
                                 new_status)
                    THEN "nearest" ELSE "write",
           incident_id |-> incident_id,
           new_status |-> new_status,
           old_status |-> row.status,
           dispatched |-> row.dispatched_responders,
           point |-> row.point,
           nearest_fd |-> 0,
           code |-> 0]]
  /\ UNCHANGED <<fire_departments, incidents, next_incident_id, side_vars, txn, rep,
                 n_upserts, hist>>

\* Lines 840-869: read the departments, pick the nearest.
UpdNearest(u) ==
  /\ upd[u].pc = "nearest"
  /\ upd' = [upd EXCEPT ![u].pc = "write",
                        ![u].nearest_fd = Nearest(fire_departments,
                                                  upd[u].point)]
  /\ UNCHANGED <<fire_departments, incidents, next_incident_id, side_vars, txn, rep,
                 n_upserts, hist>>

\* Variant of Release: nothing is credited.
ReleaseNothing(fds, fd_id, dispatched) == fds

\* Lines 874-881: UPDATE fire_departments SET available_staff = ... + ?.
Release(fds, fd_id, dispatched) ==
  [d \in DOMAIN fds |->
     IF d = fd_id
       THEN [fds[d] EXCEPT !.available_staff = @ + dispatched]
       ELSE fds[d]]

DoneUpd == [IdleUpd EXCEPT !.pc = "done", !.code = 200]

\* Lines 903-921: the answer after the commit.  The row is read again; when
\* it is gone, building the body from it raises (500).
update_answer(incident_exists) ==
  [DoneUpd EXCEPT !.code = IF incident_exists THEN 200 ELSE 500]

\* JSON values of the "status" key that Python cannot hash: an array, an
\* object.  `new_status not in allowed_statuses` (line 815) raises TypeError
\* on them.
UNHASHABLE == {"[]"}

\* Lines 811-829: 400 for a status outside allowed_statuses, then 404 for an
\* incident that is not in the table; 200 stands for a request that goes on.
\* The membership test on a set hashes its operand first: an unhashable
\* status leaves the handler through the exception (500).
update_status_code(new_status, incident_exists) ==
  IF new_status \in UNHASHABLE THEN 500
  ELSE IF new_status \notin allowed_statuses THEN 400
  ELSE IF ~incident_exists THEN 404
  ELSE 200

\* Lines 811-829: a request that is refused returns here; it has executed
\* at most the SELECT.
UpdReject(u, incident_id, new_status) ==
  LET code == update_status_code(new_status,
                                 incident_id \in DOMAIN incidents)
  IN /\ upd[u].pc = "idle"
     /\ \A v \in UpdIds : v < u => upd[v].pc # "idle"
     /\ code # 200
     /\ upd' = [upd EXCEPT ![u] = [IdleUpd EXCEPT
                                     !.pc = "done",
                                     !.incident_id = incident_id,
                                     !.new_status = new_status,
                                     !.code = code]]
     /\ UNCHANGED <<fire_departments, incidents, next_incident_id, side_vars, txn, rep,
                    n_upserts, hist>>

\* Variant of UpdWrite: a reclamation without a department to credit fails
\* the request, nothing is written.
UpdWriteNeedsTarget(u) ==
  LET h == upd[u]
      must == MustReclaim(h.old_status, h.dispatched, h.new_status)
      reclaim == must /\ h.nearest_fd # 0
  IN /\ h.pc = "write"
     /\ ~WriteLocked(0)
     /\ fire_departments' = IF reclaim
                              THEN Release(fire_departments, h.nearest_fd,
                                           h.dispatched)
                              ELSE fire_departments
     /\ incidents' = [j \in DOMAIN incidents |->
          IF j = h.incident_id /\ (reclaim \/ ~must)
            THEN [incidents[j] EXCEPT
                    !.dispatched_responders = IF reclaim THEN 0 ELSE @,
                    !.status = h.new_status]
            ELSE incidents[j]]
     /\ upd' = [upd EXCEPT ![u] =
                  update_answer(h.incident_id \in DOMAIN incidents)]
     /\ hist' = [j \in IncidentIds |->
          IF j = h.incident_id /\ j \in DOMAIN incidents
            THEN [hist[j] EXCEPT
                    !.reclaimed = IF reclaim THEN @ + 1 ELSE @,
                    !.was_resolved =
                       @ \/ (h.new_status = "resolved" /\ (reclaim \/ ~must)),
                    !.unreleased = @ \/ (must /\ h.nearest_fd = 0)]
            ELSE hist[j]]
     /\ UNCHANGED <<next_incident_id, side_vars, txn, rep, n_upserts>>

\* Variant of UpdWrite: the reclamation credits the department but leaves
\* the incident's dispatched_responders as it was.
UpdWriteKeepsDispatched(u) ==
  LET h == upd[u]
      reclaim == MustReclaim(h.old_status, h.dispatched, h.new_status)
                 /\ h.nearest_fd # 0
  IN /\ h.pc = "write"
     /\ ~WriteLocked(0)
     /\ fire_departments' = IF reclaim
                              THEN Release(fire_departments, h.nearest_fd,
                                           h.dispatched)
                              ELSE fire_departments
     /\ incidents' = [j \in DOMAIN incidents |->
          IF j = h.incident_id
            THEN [incidents[j] EXCEPT !.status = h.new_status]
            ELSE incidents[j]]
     /\ upd' = [upd EXCEPT ![u] =
                  update_answer(h.incident_id \in DOMAIN incidents)]
     /\ hist' = [j \in IncidentIds |->
          IF j = h.incident_id /\ j \in DOMAIN incidents
            THEN [hist[j] EXCEPT
                    !.reclaimed = IF reclaim THEN @ + 1 ELSE @,
                    !.was_resolved = @ \/ h.new_status = "resolved",
                    !.unreleased =
                       @ \/ ( /\ MustReclaim(h.old_status, h.dispatched,
                                              h.new_status)
                              /\ h.nearest_fd = 0 )]
            ELSE hist[j]]
     /\ UNCHANGED <<next_incident_id, side_vars, txn, rep, n_upserts>>

\* Lines 871-901: credit the nearest department and zero the incident's
\* dispatched_responders when reclaiming, set the status, commit.
UpdWrite(u) ==
  LET h == upd[u]
      reclaim == MustReclaim(h.old_status, h.dispatched, h.new_status)
                 /\ h.nearest_fd # 0
  IN /\ h.pc = "write"
     /\ ~WriteLocked(0)
     /\ fire_departments' = IF reclaim
                              THEN Release(fire_departments, h.nearest_fd,
                                           h.dispatched)
                              ELSE fire_departments
     /\ incidents' = [j \in DOMAIN incidents |->
          IF j = h.incident_id
            THEN [incidents[j] EXCEPT
                    !.dispatched_responders = IF reclaim THEN 0 ELSE @,
                    !.status = h.new_status]
            ELSE incidents[j]]
     /\ upd' = [upd EXCEPT ![u] =
                  update_answer(h.incident_id \in DOMAIN incidents)]
     /\ hist' = [j \in IncidentIds |->
          IF j = h.incident_id /\ j \in DOMAIN incidents
            THEN [hist[j] EXCEPT
                    !.reclaimed = IF reclaim THEN @ + 1 ELSE @,
                    !.was_resolved = @ \/ h.new_status = "resolved",
                    !.unreleased =
                       @ \/ ( /\ MustReclaim(h.old_status, h.dispatched,
                                              h.new_status)
                              /\ h.nearest_fd = 0 )]
            ELSE hist[j]]
     /\ UNCHANGED <<next_incident_id, side_vars, txn, rep, n_upserts>>

\* ---------------------------------------- create_or_update_fire_department
\* Lines 600-664: without an id INSERT a department, with the id of an
\* existing one overwrite its coordinates and available_staff.
create_or_update_fire_department(fd_id, lat_lon, staff) ==
  /\ n_upserts < MaxUpserts
  /\ ~WriteLocked(0)
  /\ IF fd_id = 0
       THEN LET new_id == Cardinality(DOMAIN fire_departments) + 1
            IN fire_departments' =
                 (new_id :> [point |-> lat_lon, available_staff |-> staff])
                 @@ fire_departments
       ELSE /\ fd_id \in DOMAIN fire_departments
            /\ fire_departments' = [fire_departments EXCEPT ![fd_id] =
                 [point |-> lat_lon, available_staff |-> staff]]
  /\ n_upserts' = n_upserts + 1
  /\ UNCHANGED <<incidents, next_incident_id, side_vars, txn, rep, upd, hist>>

\* ------------------------------------------------------------ transitions
Report ==
  \/ \E lat_lon \in LocInputs, severity_raw \in SeverityRaw :
        ReportInsert(lat_lon, severity_raw)
  \/ \E i \in IncidentIds, verdict \in Verdicts : ReportReject(i, verdict)
  \/ \E i \in IncidentIds, verdict \in Verdicts, outcome \in AiOutcomes :
        ReportAllocate(i, verdict, outcome)
  \/ \E i \in IncidentIds, item_id \in ItemIdStrings,
        fd_id_str \in FdIdStrings, dispatched \in AmountChoices :
        ReportAssignment(i, item_id, fd_id_str, dispatched)
  \/ \E i \in IncidentIds : ReportFinish(i)
  \/ \E i \in IncidentIds : ReportInterrupted(i)

StatusChange ==
  \/ \E u \in UpdIds, incident_id \in IncidentIds,
        new_status \in allowed_statuses : UpdFetch(u, incident_id, new_status)
  \/ \E u \in UpdIds : UpdNearest(u)
  \/ \E u \in UpdIds : UpdWrite(u)

Upsert ==
  \E fd_id \in 0..(NumDepts + MaxUpserts), lat_lon \in PointInputs,
     staff \in StaffInputs :
     create_or_update_fire_department(fd_id, lat_lon, staff)

\* ------------------------------------------------------- sensor_queue.py
\* Message bodies: text that is not JSON, a reading without incident, a
\* reading for incident 1 (publish_to_sensor_queue.py, lines 12-25).
Bodies ==
  { [json |-> FALSE, sensor_id |-> NULL, incident_id |-> NULL],
    [json |-> TRUE, sensor_id |-> 1, incident_id |-> NULL],
    [json |-> TRUE, sensor_id |-> 1, incident_id |-> 1] }

\* publish_to_sensor_queue.py, lines 27-34: basic_publish to the queue.
Publish(body) ==
  /\ Len(msgs) < MaxMessages
  /\ msgs' = Append(msgs, [body |-> body, deliveries |-> 0, acks |-> 0,
                           outcome |-> "none"])
  /\ sensor_data' = Append(sensor_data, Len(msgs) + 1)
  /\ UNCHANGED <<fire_departments, incidents, next_incident_id, txn, rep,
                 upd, n_upserts, hist, consumer, sensor_readings, pair,
                 measured>>

\* Lines 72-73: with prefetch_count = 1 the broker hands the head of the
\* queue to the callback when no delivery is unacknowledged.
Deliver ==
  /\ consumer.pc = "waiting"
  /\ sensor_data # <<>>
  /\ consumer' = [pc |-> "received", delivery_tag |-> Head(sensor_data)]
  /\ sensor_data' = Tail(sensor_data)
  /\ msgs' = [msgs EXCEPT ![Head(sensor_data)].deliveries = @ + 1]
  /\ UNCHANGED <<fire_departments, incidents, next_incident_id, txn, rep,
                 upd, n_upserts, hist, sensor_readings, pair, measured>>

\* process_message, lines 22-50: whether the body gets as far as the commit.
\* json.loads raises on text that is not JSON (26), data["sensor_id"] on a
\* missing key (28); the INSERT raises on a NULL sensor_id, on an
\* incident_id that is not in incidents (foreign_keys = ON, line 18) and on
\* a database that stays locked.
process_message(body, incident_ids, locked) ==
  /\ body.json
  /\ body.sensor_id # NULL
  /\ body.incident_id = NULL \/ body.incident_id \in incident_ids
  /\ ~locked

\* Lines 65-66 and 68-69: process_message runs; it commits one row or
\* raises.  A locked database lets the INSERT wait or, after the timeout of
\* the connection, raise.
ProcessMessage ==
  LET m == consumer.delivery_tag
      body == msgs[m].body
      ok == process_message(body, DOMAIN incidents, txn.owner # 0)
  IN /\ consumer.pc = "received"
     /\ (txn.owner # 0) => process_message(body, DOMAIN incidents, FALSE)
     /\ sensor_readings' =
          IF ok THEN Append(sensor_readings,
                            [sensor_id |-> body.sensor_id,
                             incident_id |-> body.incident_id, msg |-> m])
                ELSE sensor_readings
     /\ consumer' = [consumer EXCEPT !.pc = IF ok THEN "processed"
                                                  ELSE "raised"]
     /\ msgs' = [msgs EXCEPT ![m].outcome = IF ok THEN "ok" ELSE "raised"]
     /\ UNCHANGED <<fire_departments, incidents, next_incident_id, txn, rep,
                    upd, n_upserts, hist, sensor_data, pair, measured>>

\* Variant of Acknowledge: the except branch rejects the delivery and the
\* broker puts it back at the head of the queue.
AcknowledgeOrRequeue ==
  LET m == consumer.delivery_tag
  IN /\ consumer.pc \in {"processed", "raised"}
     /\ IF consumer.pc = "processed"
          THEN /\ msgs' = [msgs EXCEPT ![m].acks = @ + 1]
               /\ sensor_data' = sensor_data
          ELSE /\ msgs' = msgs
               /\ sensor_data' = <<m>> \o sensor_data
     /\ consumer' = Waiting
     /\ UNCHANGED <<fire_departments, incidents, next_incident_id, txn, rep,
                    upd, n_upserts, hist, sensor_readings, pair, measured>>

\* Lines 67 and 70: basic_ack of the delivery, in the try block after
\* process_message returned and in the except block after it raised; the
\* broker drops the message and the callback returns.
Acknowledge ==
  LET m == consumer.delivery_tag
  IN /\ consumer.pc \in {"processed", "raised"}
     /\ msgs' = [msgs EXCEPT ![m].acks = @ + 1]
     /\ consumer' = Waiting
     /\ UNCHANGED <<fire_departments, incidents, next_incident_id, txn, rep,
                    upd, n_upserts, hist, sensor_data, sensor_readings, pair,
                    measured>>

Sensor ==
  \/ \E body \in Bodies : Publish(body)
  \/ Deliver
  \/ ProcessMessage
  \/ Acknowledge

\* -------------------------------------------- the distance of lines 851-865
\* Directions in which the distance of pair is computed.
Directions == {"ab", "ba", "aa"}

\* Two points are chosen.
ChoosePair(a, b) ==
  /\ pair = <<NULL, NULL>>
  /\ pair' = <<a, b>>
  /\ UNCHANGED <<fire_departments, incidents, next_incident_id, txn, rep,
                 upd, n_upserts, hist, sensor_data, consumer,
                 sensor_readings, msgs, measured>>

\* Lines 851-865 applied to the pair in one direction.
Measure(dir) ==
  /\ pair # <<NULL, NULL>>
  /\ dir \notin DOMAIN measured
  /\ measured' = (dir :> CASE dir = "ab" -> dist_km(pair[1], pair[2])
                           [] dir = "ba" -> dist_km(pair[2], pair[1])
                           [] dir = "aa" -> dist_km(pair[1], pair[1]))
                  @@ measured
  /\ UNCHANGED <<fire_departments, incidents, next_incident_id, txn, rep,
                 upd, n_upserts, hist, sensor_data, consumer,
                 sensor_readings, msgs, pair>>

Distance ==
  \/ \E a \in POINTS, b \in POINTS : ChoosePair(a, b)
  \/ \E dir \in Directions : Measure(dir)

\* Status requests that are refused: a status that is not allowed, an id
\* that is not in the table.
StatusInputs == allowed_statuses \cup {"closed"} \cup UNHASHABLE

StatusReject ==
  \E u \in UpdIds, incident_id \in 1..(MaxIncidents + 1),
     new_status \in StatusInputs : UpdReject(u, incident_id, new_status)

NextCore == Report \/ StatusChange

Next == Report \/ StatusChange \/ Upsert

\* Incident creations only.
SpecReports == Init /\ [][Report]_vars

\* Incident creations and refused status requests.
SpecRejects == Init /\ [][Report \/ StatusReject]_vars

\* Incident creations and the sensor queue consumer.
SpecSensor == Init /\ [][Report \/ Sensor]_vars

\* The distance computation on chosen pairs of points.
SpecDistance == Init /\ [][Distance]_vars

\* Incident creations and status changes.
SpecCore == Init /\ [][NextCore]_vars

\* With the department create-or-update endpoint.
Spec == Init /\ [][Next]_vars

\* ================================================================ claims
RECURSIVE SumStaff(_, _)
\* Sum of available_staff over the rows n, n-1, .., 1 of a department table.
SumStaff(fds, n) ==
  IF n = 0 THEN 0 ELSE fds[n].available_staff + SumStaff(fds, n - 1)

TotalStaff(fds) == SumStaff(fds, Cardinality(DOMAIN fds))

RECURSIVE SumDispatched(_, _)
\* Sum of dispatched_responders over the rows of incs with an id in ids.
SumDispatched(incs, ids) ==
  IF ids = {} THEN 0
  ELSE LET j == CHOOSE k \in ids : TRUE
       IN incs[j].dispatched_responders + SumDispatched(incs, ids \ {j})

TotalDispatched(incs) == SumDispatched(incs, DOMAIN incs)

InitialStaff == TotalStaff([d \in 1..NumDepts |-> default_departments[d]])

\* The step in which report handler i returns 201.
ReportCompletes(i) == rep[i].pc # "done" /\ rep'[i].pc = "done"

\* The step in which report handler i commits a positive dispatched total.
ReportCommits(i) ==
  rep[i].pc = "assign" /\ rep'[i].pc = "done" /\ rep[i].dispatched_total > 0

\* The step in which report handler i counts `amount` for department d.
ReportReserves(i, d, amount) ==
  /\ rep[i].pc = "assign"
  /\ rep'[i].pc = "assign"
  /\ rep'[i].dispatched_total = rep[i].dispatched_total + amount
  /\ hist'[i].plan[d] = hist[i].plan[d] + amount

\* The step in which status handler u writes and commits.
UpdWrites(u) == upd[u].pc = "write" /\ upd'[u].pc = "done"

\* C1: after any interleaving of incident creations and status changes every
\* fire department's available count is >= 0, in the committed table and in
\* the table of an open transaction.
C1_NonNegative ==
  /\ \A d \in DOMAIN fire_departments :
        fire_departments[d].available_staff >= 0
  /\ \A d \in DOMAIN txn.fds : txn.fds[d].available_staff >= 0

\* C1 witness: two creations drew on department 1 and the second deduction
\* met a count smaller than its amount.
C1_Witness ==
  /\ Committed = {1, 2}
  /\ hist[1].plan[1] > 0
  /\ hist[2].plan[1] > 0
  /\ fire_departments[1].available_staff = 0

\* C2 (as claimed): across incident creations and status changes the sum of
\* available responders over all departments plus the sum of
\* dispatched_responders over all incidents stays at its initial value.
\* Stated for allocation responses that name existing departments only and
\* stay within the snapshot they were computed from.
C2_Conserved ==
  (\A i \in IncidentIds : hist[i].plan_ok)
    => TotalStaff(fire_departments) + TotalDispatched(incidents) = InitialStaff

\* C3 (as claimed): two creations whose plans were computed from the same
\* snapshot, each within that snapshot, and that both draw on a department
\* never record more as dispatched from it than the snapshot's count.
C3_NoOverCommit ==
  \A i \in Committed, j \in Committed :
    \A d \in DOMAIN rep[i].snapshot :
      ( /\ i # j
        /\ rep[i].snapshot = rep[j].snapshot
        /\ hist[i].plan_ok
        /\ hist[j].plan_ok
        /\ hist[i].plan[d] > 0
        /\ hist[j].plan[d] > 0 )
      => hist[i].plan[d] + hist[j].plan[d] <= rep[i].snapshot[d]

C5_RecordsDeducted ==
  [][\A i \in IncidentIds :
        ( /\ ReportCommits(i)
          /\ \A d \in FdInts :
               hist[i].plan[d] > 0 => d \in DOMAIN fire_departments )
        => incidents'[i].dispatched_responders
             = TotalStaff(fire_departments) - TotalStaff(fire_departments')]_vars

\* C6 (as claimed): for an incident created with a valid severity the sum of
\* responders_dispatched over the assignments returned for it equals its
\* stored dispatched_responders, which is at most severity_score * 10.
C6_AssignmentsMatch ==
  \A i \in DOMAIN incidents :
    ( /\ rep[i].pc = "done"
      /\ incidents[i].severity_score >= SEVERITY_MIN
      /\ incidents[i].severity_score <= SEVERITY_MAX )
    => /\ hist[i].returned = incidents[i].dispatched_responders
       /\ incidents[i].dispatched_responders
            <= incidents[i].severity_score * REQUIRED_PER_SEVERITY

\* C7 (as claimed): when a creation completes, the incident's status is
\* in_process if its dispatched_responders is > 0 and open if it is 0.
C7_StatusOnCreation ==
  [][\A i \in IncidentIds :
        (ReportCompletes(i) /\ i \in DOMAIN incidents') =>
          /\ incidents'[i].dispatched_responders > 0
               => incidents'[i].status = "in_process"
          /\ incidents'[i].dispatched_responders = 0
               => incidents'[i].status = "open"]_vars

IsNearest(fds, point, n) ==
  /\ n \in DOMAIN fds
  /\ fds[n].point # NULL
  /\ \A e \in DOMAIN fds :
       fds[e].point # NULL
         => dist_km(point, fds[n].point) <= dist_km(point, fds[e].point)

\* C9: a reclamation of N credits exactly one department, a nearest one to
\* the incident's location among the departments with coordinates that the
\* handler read: its count rises by exactly N, every other row is unchanged.
C9_CreditsNearest ==
  [][\A u \in UpdIds :
        /\ (upd[u].pc = "nearest" /\ upd'[u].pc = "write")
             => IF \E d \in DOMAIN fire_departments :
                     fire_departments[d].point # NULL
                  THEN IsNearest(fire_departments, upd[u].point,
                                 upd'[u].nearest_fd)
                  ELSE upd'[u].nearest_fd = 0
        /\ (UpdWrites(u) /\ upd[u].nearest_fd # 0)
             => /\ DOMAIN fire_departments' = DOMAIN fire_departments
                /\ \A d \in DOMAIN fire_departments :
                     fire_departments'[d] =
                       IF d = upd[u].nearest_fd
                         THEN [fire_departments[d] EXCEPT
                                 !.available_staff = @ + upd[u].dispatched]
                         ELSE fire_departments[d]]_vars

\* C9 witness: with two departments that have coordinates, the farther one
\* first in the table, a reclamation has credited the nearer one.
C9_Witness ==
  \E i \in DOMAIN incidents :
    /\ rep[i].pc = "done"
    /\ rep[i].dispatched_total > 0
    /\ incidents[i].dispatched_responders = 0
    /\ 2 \in DOMAIN fire_departments
    /\ fire_departments[1].point # NULL
    /\ fire_departments[2].point # NULL
    /\ dist_km(incidents[i].point, fire_departments[2].point)
         < dist_km(incidents[i].point, fire_departments[1].point)
    /\ fire_departments[2].available_staff >= rep[i].dispatched_total

\* C10: a status change that read an old status other than in_process, or
\* sets in_process, or read dispatched_responders 0, changes no department
\* row and leaves the incident's dispatched_responders as it is.
C10_NoReclaim ==
  [][\A u \in UpdIds :
        ( /\ UpdWrites(u)
          /\ \/ upd[u].old_status # "in_process"
             \/ upd[u].new_status = "in_process"
             \/ upd[u].dispatched = 0 )
        => /\ fire_departments' = fire_departments
           /\ upd[u].incident_id \in DOMAIN incidents =>
                incidents'[upd[u].incident_id].dispatched_responders
                  = incidents[upd[u].incident_id].dispatched_responders]_vars

\* C10 witness: an incident created without responders has been resolved by
\* a status change, and the departments hold what they held at the start.
C10_Witness ==
  \E i \in DOMAIN incidents :
    /\ rep[i].pc = "done"
    /\ rep[i].dispatched_total = 0
    /\ incidents[i].status = "resolved"
    /\ incidents[i].dispatched_responders = 0
    /\ \E u \in UpdIds : upd[u].pc = "done"
    /\ TotalStaff(fire_departments) = InitialStaff

\* The step in which status handler u fetches the incident row.
UpdFetches(u) == upd[u].pc = "idle" /\ upd'[u].pc # "idle"

\* C11: a status change that fetches the incident after a reclamation for it
\* has been committed reads dispatched_responders 0 and skips the search for
\* a department, and a status change that read 0 credits no department: the
\* second of two leave-in_process changes in sequence reclaims nothing.
C11_ReclaimOnce ==
  [][\A u \in UpdIds :
        /\ (UpdFetches(u) /\ hist[upd'[u].incident_id].reclaimed > 0)
             => /\ upd'[u].dispatched = 0
                /\ upd'[u].pc = "write"
        /\ (UpdWrites(u) /\ upd[u].dispatched = 0)
             => /\ fire_departments' = fire_departments
                /\ \A i \in IncidentIds :
                     hist'[i].reclaimed = hist[i].reclaimed]_vars

\* C11 witness: the first request resolved the incident and reclaimed; the
\* second request, again to resolved, has fetched the row and found nothing
\* to reclaim.
C11_Witness ==
  \E i \in DOMAIN incidents :
    /\ hist[i].reclaimed = 1
    /\ incidents[i].status = "resolved"
    /\ upd[1].pc = "done"
    /\ upd[2].pc = "write"
    /\ upd[2].incident_id = i
    /\ upd[2].old_status = "resolved"
    /\ upd[2].new_status = "resolved"
    /\ upd[2].dispatched = 0

\* The three states of an incident (incidents.status).
IncidentStates == {"open", "in_process", "resolved"}

\* C12: for an existing incident, whatever its status, and each of the three
\* statuses as the requested one, the next status request is accepted (it
\* fetches the row, no transition is refused), and when a request writes, the
\* incident's status is the requested one.
C12_AnyTransition ==
  /\ [](\A u \in UpdIds, s \in IncidentStates :
          \A i \in DOMAIN incidents :
            (upd[u].pc = "idle" /\ \A v \in UpdIds : v < u => upd[v].pc # "idle")
              => ENABLED UpdFetch(u, i, s))
  /\ [][\A u \in UpdIds :
          (UpdWrites(u) /\ upd[u].incident_id \in DOMAIN incidents)
            => /\ upd[u].new_status \in IncidentStates
               /\ incidents'[upd[u].incident_id].status = upd[u].new_status]_vars

\* C12 witness: an incident that left in_process with a reclamation has been
\* put back to in_process by a later request.
C12_Witness ==
  \E i \in DOMAIN incidents :
    /\ hist[i].reclaimed = 1
    /\ incidents[i].status = "in_process"
    /\ incidents[i].dispatched_responders = 0
    /\ \A u \in UpdIds : upd[u].pc = "done"

\* C13 (as claimed): once an incident's status is resolved, no later operation
\* changes its status.
C13_ResolvedTerminal ==
  [][\A i \in DOMAIN incidents :
        (incidents[i].status = "resolved" /\ i \in DOMAIN incidents')
          => incidents'[i].status = "resolved"]_vars

\* C13 (amended): resolved is not enforced as terminal.  The status of a
\* resolved incident changes only by a status request that writes the
\* status it asked for, or by the incident's own creation recording a
\* positive dispatch (in_process).
C13_ResolvedLeftByRequest ==
  [][\A i \in DOMAIN incidents :
        ( /\ incidents[i].status = "resolved"
          /\ i \in DOMAIN incidents'
          /\ incidents'[i].status # "resolved" )
        => \/ \E u \in UpdIds :
                /\ UpdWrites(u)
                /\ upd[u].incident_id = i
                /\ upd[u].new_status = incidents'[i].status
           \/ /\ ReportCommits(i)
              /\ incidents'[i].status = "in_process"]_vars

\* C13 witness: an incident that a request had committed as resolved is open.
C13_Witness ==
  \E i \in DOMAIN incidents :
    /\ hist[i].was_resolved
    /\ incidents[i].status = "open"
    /\ \A u \in UpdIds : upd[u].pc = "done"

\* C14 (as claimed): when a creation returns 201 with nothing allocated (the
\* allocation service failed, could not be reached, or no counted assignment
\* carried responders), the incident exists with status open and
\* dispatched_responders 0, and the step changes no department row.
C14_NothingAllocated ==
  [][\A i \in IncidentIds :
        (ReportCompletes(i) /\ rep[i].dispatched_total = 0)
          => /\ i \in DOMAIN incidents'
             /\ incidents'[i].status = "open"
             /\ incidents'[i].dispatched_responders = 0
             /\ fire_departments' = fire_departments]_vars

\* C15 (as claimed): a creation that returns 201 with fewer than
\* severity_score * 10 responders dispatched carries a shortfall value in its
\* result, equal to severity_score * 10 minus the dispatched total.
C15_ShortfallReported ==
  \A i \in IncidentIds :
    ( /\ rep[i].pc = "done"
      /\ rep[i].dispatched_total
           < rep[i].response.body["severity_score"] * REQUIRED_PER_SEVERITY )
    => /\ "shortfall" \in DOMAIN rep[i].response.body
       /\ rep[i].response.body["shortfall"]
            = rep[i].response.body["severity_score"] * REQUIRED_PER_SEVERITY
                - rep[i].dispatched_total

RECURSIVE SumOver(_, _)
\* Sum of f[d] over the d in ds.
SumOver(f, ds) ==
  IF ds = {} THEN 0
  ELSE LET d == CHOOSE e \in ds : TRUE IN f[d] + SumOver(f, ds \ {d})

Min(a, b) == IF a <= b THEN a ELSE b

\* The allocation service answered 200 for creation i and the loop is over.
Allocated(i) ==
  rep[i].pc = "done" /\ "resource_allocation" \in DOMAIN rep[i].response.body

\* C16 (as claimed): the amounts of the allocation plan returned for an
\* incident sum to min(severity_score * 10, total available_responders of the
\* candidates sent), no amount exceeds its department's available count, and
\* no amount is negative.
C16_PlanWithinCapacity ==
  \A i \in IncidentIds :
    Allocated(i) =>
      LET snapshot == rep[i].snapshot
          required == rep[i].response.body["severity_score"]
                        * REQUIRED_PER_SEVERITY
      IN /\ hist[i].returned
              = Min(required, SumOver(snapshot, DOMAIN snapshot))
         /\ \A d \in FdInts :
              /\ hist[i].plan[d] >= 0
              /\ hist[i].plan[d]
                   <= IF d \in DOMAIN snapshot THEN snapshot[d] ELSE 0

\* Candidate d comes before candidate e for an incident at `point`: nearer,
\* or as near with the smaller id.
Before(fds, point, d, e) ==
  \/ dist_km(point, fds[d].point) < dist_km(point, fds[e].point)
  \/ /\ dist_km(point, fds[d].point) = dist_km(point, fds[e].point)
     /\ d <= e

RECURSIVE GreedyPlan(_, _, _, _, _)
\* Nearest-first plan over the candidates cands: each gives
\* min(remaining, its available count).
GreedyPlan(fds, snapshot, point, cands, remaining) ==
  IF cands = {} THEN <<>>
  ELSE LET d == CHOOSE c \in cands :
                  \A e \in cands : Before(fds, point, c, e)
           give == Min(remaining, snapshot[d])
       IN (d :> give)
          @@ GreedyPlan(fds, snapshot, point, cands \ {d}, remaining - give)

\* C17 (as claimed): the plan returned for an incident is the greedy
\* nearest-first one (ascending distance, ties by ascending id, each
\* candidate giving min(remaining required, its available count)), and two
\* allocations for the same severity, location and candidate snapshot return
\* the same assignments.
C17_GreedyDeterministic ==
  /\ \A i \in IncidentIds :
       Allocated(i) =>
         LET snapshot == rep[i].snapshot
             greedy == GreedyPlan(fire_departments, snapshot,
                                  incidents[i].point, DOMAIN snapshot,
                                  incidents[i].severity_score
                                    * REQUIRED_PER_SEVERITY)
         IN /\ \A d \in FdInts :
                 hist[i].plan[d]
                   = IF d \in DOMAIN snapshot THEN greedy[d] ELSE 0
            /\ hist[i].returned = SumOver(hist[i].plan, FdInts)
  /\ \A i \in IncidentIds, j \in IncidentIds :
       ( /\ Allocated(i)
         /\ Allocated(j)
         /\ incidents[i].severity_score = incidents[j].severity_score
         /\ incidents[i].point = incidents[j].point
         /\ rep[i].snapshot = rep[j].snapshot )
       => /\ hist[i].plan = hist[j].plan
          /\ hist[i].returned = hist[j].returned

\* C18 (as claimed): the available count of an existing department changes
\* only when a creation commits its deductions (reserve) or a status change
\* commits a reclamation for that department (release).
C18_OnlyReserveRelease ==
  [][\A d \in DOMAIN fire_departments :
        fire_departments'[d].available_staff
          # fire_departments[d].available_staff
        => \/ \E i \in IncidentIds :
                ReportCommits(i) /\ hist[i].plan[d] > 0
           \/ \E u \in UpdIds :
                UpdWrites(u) /\ upd[u].nearest_fd = d]_vars

\* The incidents whose row records a dispatch.
Recorded == {i \in DOMAIN incidents : incidents[i].dispatched_responders > 0}

\* What successive deductions of `total` in all leave of a count.
Deducted(count, total) == IF count >= total THEN count - total ELSE 0

\* C19: with incident creations only, interrupted ones included, the
\* committed tables hold the allocations of the creations that recorded their
\* dispatch and nothing of any other: every department's committed count is
\* its initial count less the deductions of the recorded incidents, a
\* recorded incident is in_process with the total its creation counted, and
\* an interrupted creation has recorded nothing.
C19_AllOrNothing ==
  /\ \A d \in DOMAIN fire_departments :
       fire_departments[d].available_staff
         = Deducted(default_departments[d].available_staff,
                    SumOver([i \in Recorded |-> hist[i].plan[d]], Recorded))
  /\ \A i \in Recorded :
       /\ rep[i].pc = "done"
       /\ incidents[i].dispatched_responders = rep[i].dispatched_total
       /\ incidents[i].status = "in_process"
  /\ \A i \in DOMAIN incidents :
       rep[i].pc = "aborted" => incidents[i].dispatched_responders = 0

\* C19 witness: a creation was interrupted after it had issued a deduction
\* from department 1; the department holds its initial count.
C19_Witness ==
  \E i \in DOMAIN incidents :
    /\ rep[i].pc = "aborted"
    /\ hist[i].plan[1] > 0
    /\ incidents[i].dispatched_responders = 0
    /\ txn = NoTxn
    /\ fire_departments[1].available_staff
         = default_departments[1].available_staff

\* Status handler u has fetched the row of incident i and has not returned.
HoldsRow(u, i) ==
  upd[u].pc \in {"nearest", "write"} /\ upd[u].incident_id = i

\* C20 (as claimed): an incident whose report carries an attachment judged
\* fake is never visible to another request: no status request ever holds
\* the fetched row of an incident whose creation was rejected as fake.
C20_FakeNeverVisible ==
  \A i \in IncidentIds :
    rep[i].pc = "rejected" => \A u \in UpdIds : ~HoldsRow(u, i)

\* C21 (as claimed): a report whose severity_score is out of range creates no
\* incident and changes no department count: no incident row ever carries a
\* severity outside SEVERITY_MIN..SEVERITY_MAX, and no creation for such a
\* severity counts a deduction.
C21_InvalidSeverityRejected ==
  \A i \in IncidentIds :
    /\ i \in DOMAIN incidents
         => /\ incidents[i].severity_score >= SEVERITY_MIN
            /\ incidents[i].severity_score <= SEVERITY_MAX
    /\ ( /\ "severity_score" \in DOMAIN rep[i].response.body
         /\ \/ rep[i].response.body["severity_score"] < SEVERITY_MIN
            \/ rep[i].response.body["severity_score"] > SEVERITY_MAX )
       => rep[i].response.code # 201

\* C22: a status change that read in_process and dispatched_responders > 0,
\* requests another status and found no department with coordinates to
\* credit still completes: the incident's status becomes the requested one
\* and no department row changes.
C22_NoTargetStillSucceeds ==
  [][\A u \in UpdIds :
        ( /\ upd[u].pc = "write"
          /\ upd'[u] # upd[u]
          /\ upd[u].old_status = "in_process"
          /\ upd[u].dispatched > 0
          /\ upd[u].new_status # "in_process"
          /\ upd[u].nearest_fd = 0 )
        => /\ upd'[u].pc = "done"
           /\ incidents'[upd[u].incident_id].status = upd[u].new_status
           /\ fire_departments' = fire_departments]_vars

\* C22 witness: no department has coordinates, and a request that had to
\* reclaim for an incident has resolved it without crediting anyone.
C22_Witness ==
  \E i \in DOMAIN incidents :
    /\ hist[i].unreleased
    /\ hist[i].reclaimed = 0
    /\ incidents[i].status = "resolved"
    /\ \A d \in DOMAIN fire_departments : fire_departments[d].point = NULL
    /\ \A u \in UpdIds : upd[u].pc = "done"

\* C23 (as claimed): the status requests for an incident, concurrent ones
\* included, credit department capacity with the incident's dispatched
\* responders N once: the credits committed for an incident add up to at
\* most the N its creation recorded, and each credit takes what the
\* incident's row still holds.
C23_CreditedOnce ==
  /\ [](\A i \in IncidentIds :
          hist[i].reclaimed * rep[i].dispatched_total
            <= rep[i].dispatched_total)
  /\ [][\A u \in UpdIds :
          (UpdWrites(u) /\ fire_departments' # fire_departments)
            => incidents[upd[u].incident_id].dispatched_responders
                 = upd[u].dispatched]_vars

\* C24 (as claimed): in every reachable state an incident whose status is not
\* in_process has dispatched_responders 0.
C24_HeldOnlyInProcess ==
  \A i \in DOMAIN incidents :
    incidents[i].status # "in_process"
      => incidents[i].dispatched_responders = 0

\* The step in which report handler i passes one assignment entry.
ReportPassesRow(i) ==
  rep[i].pc = "assign" /\ rep'[i].pc = "assign"
    /\ rep'[i].rows = rep[i].rows + 1

\* C25 (as claimed): an assignment naming a department id that is not in the
\* department table, or listed under another incident's id, adds nothing to
\* the new incident's dispatched total and changes no department count: the
\* loop counts no amount for a department that does not exist, and an entry
\* it does not count for the incident leaves total and counts as they were.
C25_ForeignAssignmentIgnored ==
  [][\A i \in IncidentIds :
        ReportPassesRow(i) =>
          /\ \A d \in FdInts \ DOMAIN FdTable(i) :
               hist'[i].plan[d] = hist[i].plan[d]
          /\ hist'[i].plan = hist[i].plan
               => /\ rep'[i].dispatched_total = rep[i].dispatched_total
                  /\ fire_departments' = fire_departments
                  /\ txn'.owner = i => txn'.fds = FdTable(i)]_vars

\* The step in which status handler u returns without having fetched a row.
UpdRejects(u) == upd[u].pc = "idle" /\ upd'[u].pc = "done"

\* C26: a status request with a status outside {open, in_process, resolved}
\* returns 400, whether or not the incident exists; a request with an allowed
\* status for an id that is not in the table returns 404; in both cases no
\* incident row, no department row and no open transaction is changed.
C26_RejectedChangesNothing ==
  [][\A u \in UpdIds :
        UpdRejects(u) =>
          /\ upd'[u].code
               = IF upd'[u].new_status \notin IncidentStates THEN 400
                 ELSE 404
          /\ upd'[u].code = 404 => upd'[u].incident_id \notin DOMAIN incidents
          /\ incidents' = incidents
          /\ fire_departments' = fire_departments
          /\ txn' = txn]_vars

\* The step in which the creation of incident i answers 400 for a fake file.
ReportRejects(i) == rep[i].pc = "files" /\ rep'[i].pc = "rejected"

\* C27: an incident row disappears only in the step in which its own
\* creation rejects a fake attachment; that step leaves no row for the
\* incident, comes before any allocation call, changes no department row,
\* and the request does nothing afterwards; an incident whose creation
\* returned 201 is in the table in every later state.
C27_RemovedOnlyByRollback ==
  [][\A i \in IncidentIds :
        /\ (i \in DOMAIN incidents /\ i \notin DOMAIN incidents')
              => ReportRejects(i)
        /\ ReportRejects(i)
              => /\ i \notin DOMAIN incidents'
                 /\ fire_departments' = fire_departments
                 /\ rep'[i].snapshot = <<>>
                 /\ rep'[i].rows = 0
                 /\ rep'[i].dispatched_total = 0
                 /\ rep'[i].response.code = 400
        /\ rep[i].pc = "rejected"
              => (rep'[i] = rep[i] /\ i \notin DOMAIN incidents')
        /\ (rep'[i].pc = "done" /\ rep'[i].response.code = 201)
              => i \in DOMAIN incidents']_vars

\* C27 witness: one creation was rejected and its row is gone, while another
\* returned 201 with responders reserved and was since resolved by a status
\* request.
C27_Witness ==
  \E i \in IncidentIds, j \in IncidentIds :
    /\ rep[i].pc = "rejected"
    /\ i \notin DOMAIN incidents
    /\ rep[j].pc = "done"
    /\ rep[j].dispatched_total > 0
    /\ j \in DOMAIN incidents
    /\ incidents[j].status = "resolved"

\* Outcomes of the detection call in which the service gives no verdict.
NoVerdict == {"non_200", "unreachable"}

\* C28: while a report is at its file check, a detector that answers with a
\* non-200 status or cannot be reached never leads to the rejection of the
\* report, and the allocation step taken after such an outcome is, for every
\* answer of the allocation service, the very step taken after a file judged
\* genuine, and is possible whenever that one is.
C28_FailsOpen ==
  \A i \in IncidentIds, v \in NoVerdict, outcome \in AiOutcomes :
    rep[i].pc = "files" =>
      /\ ~ENABLED ReportReject(i, v)
      /\ ~ENABLED (ReportAllocate(i, v, outcome)
                     /\ ~ReportAllocate(i, "not_fake", outcome))
      /\ ~ENABLED (ReportAllocate(i, "not_fake", outcome)
                     /\ ~ReportAllocate(i, v, outcome))

\* C28 witness: a report is at its file check, the incident row is committed,
\* and after an unreachable detector the allocation call is made and answered
\* with candidates to assign, the incident still in the table.
C28_Witness ==
  \E i \in IncidentIds, outcome \in AiOutcomes :
    /\ rep[i].pc = "files"
    /\ i \in DOMAIN incidents
    /\ ENABLED (/\ ReportAllocate(i, "unreachable", outcome)
                /\ rep'[i].pc = "assign"
                /\ i \in DOMAIN incidents')

\* Rows of sensor_readings inserted for message m.
RowsOf(m) ==
  Cardinality({k \in DOMAIN sensor_readings : sensor_readings[k].msg = m})

\* The callback has returned for message m.
Returned(m) == msgs[m].deliveries > 0 /\ consumer.delivery_tag # m

\* C29: every message is delivered at most once and acknowledged at most
\* once, and exactly once when its callback has returned, whether
\* process_message returned or raised; an acknowledged message is not in
\* the queue again; a message that was processed has exactly one row in
\* sensor_readings, a message whose processing raised has none.
C29_AckedExactlyOnce ==
  \A m \in DOMAIN msgs :
    /\ msgs[m].deliveries <= 1
    /\ msgs[m].acks <= 1
    /\ Returned(m) => (msgs[m].acks = 1 /\ msgs[m].outcome # "none")
    /\ msgs[m].acks = 1 => \A k \in DOMAIN sensor_data : sensor_data[k] # m
    /\ RowsOf(m) = IF msgs[m].outcome = "ok" THEN 1 ELSE 0

\* C29 witness: two messages have been delivered and acknowledged; one was
\* a reading for an incident that is not in the table and left no row, the
\* other left its row.
C29_Witness ==
  \E m \in DOMAIN msgs, n \in DOMAIN msgs :
    /\ consumer.pc = "waiting"
    /\ sensor_data = <<>>
    /\ msgs[m].outcome = "raised"
    /\ msgs[m].body.incident_id # NULL
    /\ msgs[m].acks = 1
    /\ RowsOf(m) = 0
    /\ msgs[n].outcome = "ok"
    /\ msgs[n].acks = 1
    /\ RowsOf(n) = 1

====
